---- MODULE Spec2Model ----
(***************************************************************************)
(* A model of src/src_def/evaluate.py: the evaluation script and its       *)
(* evaluate() function.                                                    *)
(*                                                                         *)
(* Floating point numbers are modelled as exact rationals <<n, d>> in      *)
(* lowest terms with d > 0.  Model scores are held in tenths (a score of   *)
(* 7 stands for 0.7).  The network, the loss function, the metric          *)
(* functions, the data iterator and the tag table live outside             *)
(* evaluate.py; they appear here as small stand-ins with the call          *)
(* signatures evaluate.py uses.                                            *)
(***************************************************************************)
EXTENDS Integers, Sequences, FiniteSets, TLC

VARIABLES
    pc,               \* position of the run in the script / in evaluate
    name_main,        \* __name__ == '__main__'
    params_exists,    \* os.path.isfile(<model_dir>/params.json)
    ckpt_exists,      \* <model_dir>/<restore_file>.pth.tar can be loaded
    params,           \* the Params object: loaded, batch_size, test_size, model_type
    logger_set,       \* utils.set_logger has run
    data_loaded,      \* data_loader.load_data has run, the iterator exists
    model,            \* [defined, weights_loaded, eval_mode]
    num_steps,        \* the num_steps argument of evaluate
    step,             \* number of completed iterations of the for loop
    summ,             \* list of per-batch summary dictionaries
    tagged_sentences, \* list of tagged lines
    loss_avg,         \* utils.RunningAverage: [steps, total]
    pulled,           \* history: the batches next(data_iterator) has returned
    model_calls,      \* history: model(data_batch) calls, [batch, output]
    loss_calls,       \* history: loss_fn calls, by batch ordinal
    divisors,         \* history: denominators of the divisions executed
    metrics_mean,     \* the metrics dictionary evaluate builds and returns
    tagged_file,      \* writes to output_tagged_sentences.txt, each a list of lines
    metrics_file,     \* writes to metrics_test_<restore_file>.json
    returned,         \* what evaluate returned: "none" or [metrics, loss]
    log,              \* logging.info messages, in order
    error             \* the uncaught exception that ended the run, or "none"

vars == <<pc, name_main, params_exists, ckpt_exists, params, logger_set,
          data_loaded, model, num_steps, step, summ, tagged_sentences,
          loss_avg, pulled, model_calls, loss_calls, divisors, metrics_mean,
          tagged_file, metrics_file, returned, log, error>>

(***************************************************************************)
(* Bounds of the model.                                                    *)
(***************************************************************************)
MaxSteps == 2

MaxBatchSize == 2

MaxTestSize == 4

(***************************************************************************)
(* Rational arithmetic standing for Python/numpy float arithmetic.         *)
(***************************************************************************)
Abs(x) == IF x < 0 THEN -x ELSE x

RECURSIVE GCD(_, _)
GCD(a, b) == IF b = 0 THEN a ELSE GCD(b, a % b)

Rat(n, d) ==
    LET g == GCD(Abs(n), Abs(d))
        s == IF d < 0 THEN -1 ELSE 1
    IN  <<(s * n) \div g, (s * d) \div g>>

IntRat(n) == <<n, 1>>

RatAdd(a, b) == Rat(a[1] * b[2] + b[1] * a[2], a[2] * b[2])

RatMul(a, b) == Rat(a[1] * b[1], a[2] * b[2])

RatDiv(a, b) == Rat(a[1] * b[2], a[2] * b[1])

RECURSIVE RatSum(_)
RatSum(s) == IF s = <<>> THEN IntRat(0) ELSE RatAdd(Head(s), RatSum(Tail(s)))

Zero == IntRat(0)

(***************************************************************************)
(* Stand-ins for what evaluate.py receives from the outside.               *)
(***************************************************************************)

\* The tokens of sentence j of the b-th batch the iterator yields.
Words(b, j) == <<"b" \o ToString(b), "s" \o ToString(j)>>

\* The gold label of that sentence (data_batch['slabels']).
Label(b, j) == (b + j) % 2

\* The batches next(data_iterator) may return as its b-th batch: between one
\* and params.batch_size sentences with their labels.
Batches(b, batch_size) ==
    { [sentences |-> [j \in 1..n |-> Words(b, j)],
       slabels   |-> [j \in 1..n |-> Label(b, j)]] : n \in 1..batch_size }

\* Scores the network may give a sentence, in tenths.
Scores == {5, 7}

\* The outputs model(data_batch) may return: one row <<score>> per sentence.
ModelOutputs(data_batch) ==
    [1..Len(data_batch.sentences) -> {<<s>> : s \in Scores}]

\* The decision threshold 0.5, in tenths.
Threshold == 5

\* loss_fn(output_batch, labels_batch): mean absolute error.
RECURSIVE AbsErr(_, _)
AbsErr(output, labels) ==
    IF output = <<>> THEN 0
    ELSE Abs(Head(output)[1] - 10 * Head(labels)) + AbsErr(Tail(output), Tail(labels))

LossFn(output, labels) == Rat(AbsErr(output, labels), 10 * Len(output))

\* The metric functions of net.metrics: confusion counts and accuracy.
Hits(output, labels, y, z) ==
    Cardinality({j \in 1..Len(output) :
                    /\ (IF output[j][1] > Threshold THEN 1 ELSE 0) = y
                    /\ labels[j] = z})

MetricKeys == {"accuracy", "tp", "fp", "fn"}

Metric(metric, output, labels) ==
    CASE metric = "tp" -> IntRat(Hits(output, labels, 1, 1))
      [] metric = "fp" -> IntRat(Hits(output, labels, 1, 0))
      [] metric = "fn" -> IntRat(Hits(output, labels, 0, 1))
      [] OTHER -> Rat(Hits(output, labels, 1, 1) + Hits(output, labels, 0, 0),
                      Len(output))

\* data_loader.sid2tag
sid2tag == <<"O", "DEF">>

(***************************************************************************)
(* The pure parts of evaluate().                                           *)
(***************************************************************************)
Min(a, b) == IF a < b THEN a ELSE b

\* summary_batch: every metric of the batch, and its loss.
SummaryBatch(output, labels, loss) ==
    [metric \in MetricKeys \cup {"loss"} |->
        IF metric = "loss" THEN loss ELSE Metric(metric, output, labels)]

\* " ".join(x)
RECURSIVE JoinSpace(_)
JoinSpace(x) ==
    IF x = <<>> THEN ""
    ELSE IF Len(x) = 1 THEN Head(x)
    ELSE Head(x) \o " " \o JoinSpace(Tail(x))

\* tagged_sent for a sentence x, an output row y and a label z.
TaggedSent(x, y, z) ==
    LET zi == z
        yi == IF y[1] > Threshold THEN 1 ELSE 0
    IN  JoinSpace(x) \o "<" \o sid2tag[yi + 1] \o "/>"
                     \o "<" \o sid2tag[zi + 1] \o "/>"

\* A variant of TaggedBatch: only the first row of the batch is tagged.
TaggedBatchFirstOnly(sentences, output, labels) ==
    <<TaggedSent(sentences[1], output[1], labels[1])>>

\* The tagged lines of one batch: zip stops at the shortest of its arguments.
TaggedBatch(sentences, output, labels) ==
    [j \in 1..Min(Len(sentences), Min(Len(output), Len(labels))) |->
        TaggedSent(sentences[j], output[j], labels[j])]

\* [x[metric] for x in summ]
Column(s, metric) == [k \in 1..Len(s) |-> s[k][metric]]

\* np.mean and np.sum of a list
NpMean(values) == RatDiv(RatSum(values), IntRat(Len(values)))

\* A variant of NpSum: the counts are averaged like the other metrics.
NpSumAveraged(values) == RatDiv(RatSum(values), IntRat(Len(values)))


NpSum(values) == RatSum(values)

\* summ[0] raises IndexError on an empty list.
SummIsEmpty(s) == Len(s) = 0

MetricsMean(s) == [metric \in DOMAIN s[1] |-> NpMean(Column(s, metric))]

MetricsSum(s) == [metric \in DOMAIN s[1] |-> NpSum(Column(s, metric))]

\* A variant of DefaultScore: the scores start at 1.0.
DefaultScoreOne == IntRat(1)

\* p = r = f1 = 0.0
DefaultScore == Zero

\* A variant of Guard: the f1score block always runs.
GuardOff(tp) == TRUE

\* if tp != 0
Guard(tp) == tp # Zero

Precision(tp, fp) == RatDiv(tp, RatAdd(tp, fp))

Recall(tp, fn) == RatDiv(tp, RatAdd(tp, fn))

\* A variant of F1: the factor 2 is left out.
F1NoDouble(p, r) == RatDiv(RatMul(p, r), RatAdd(p, r))


F1(p, r) == RatDiv(RatMul(IntRat(2), RatMul(p, r)), RatAdd(p, r))

\* The f1score block: the scores, the denominators of the divisions it ran,
\* and whether every division had a denominator other than zero.
ComputeScores(tp, fp, fn) ==
    LET none == [ok |-> TRUE, divisors |-> <<>>,
                 p |-> DefaultScore, r |-> DefaultScore, f1 |-> DefaultScore]
    IN  IF ~Guard(tp) THEN none
        ELSE IF RatAdd(tp, fp) = Zero
        THEN [none EXCEPT !.ok = FALSE, !.divisors = <<RatAdd(tp, fp)>>]
        ELSE IF RatAdd(tp, fn) = Zero
        THEN [none EXCEPT !.ok = FALSE,
                          !.divisors = <<RatAdd(tp, fp), RatAdd(tp, fn)>>]
        ELSE LET p == Precision(tp, fp)
                 r == Recall(tp, fn)
                 d == <<RatAdd(tp, fp), RatAdd(tp, fn), RatAdd(p, r)>>
             IN  IF RatAdd(p, r) = Zero
                 THEN [none EXCEPT !.ok = FALSE, !.divisors = d]
                 ELSE [ok |-> TRUE, divisors |-> d,
                       p |-> p, r |-> r, f1 |-> F1(p, r)]

\* metrics_mean with f1score, precision and recall set and tp, fp, fn deleted.
FinalMetrics(mean, sc) ==
    [metric \in (DOMAIN mean \cup {"f1score", "precision", "recall"})
                    \ {"tp", "fp", "fn"} |->
        CASE metric = "f1score" -> sc.f1
          [] metric = "precision" -> sc.p
          [] metric = "recall" -> sc.r
          [] OTHER -> mean[metric]]

\* A variant of NumSteps: the number of batches is rounded up.
NumStepsCeil(test_size, batch_size) == (test_size + batch_size) \div batch_size

\* num_steps = (params.test_size + 1) // params.batch_size
NumSteps(test_size, batch_size) == (test_size + 1) \div batch_size

\* A variant of LoopContinues: the loop runs once more.
LoopContinuesInclusive(i, n) == i <= n

\* for _ in range(num_steps): another iteration follows i completed ones.
LoopContinues(i, n) == i < n

\* if __name__ == '__main__' inside the loop: the batch's sentences are tagged.
TagsSentences(main) == main

\* if __name__ == '__main__' after the loop: the tagged sentences are written.
WritesTagged(main) == main

\* A variant of ConfigAssertion: the assertion is compiled out.
ConfigAssertionOff(exists) == TRUE

\* assert os.path.isfile(json_path)
ConfigAssertion(exists) == exists

(***************************************************************************)
(* The state after construction.  Run as a script, the run starts at the   *)
(* top of the __main__ block.  Imported by another module, nothing of the  *)
(* __main__ block runs and the importer calls evaluate() with its own      *)
(* model, params and num_steps.                                            *)
(***************************************************************************)
ModelTypes == {"bert", "sbert", "luis"}

NoParams == [loaded |-> FALSE, batch_size |-> 0, test_size |-> 0, model_type |-> ""]

NoModel == [defined |-> FALSE, class |-> "", weights_loaded |-> FALSE, eval_mode |-> FALSE]

ModelClass(model_type) ==
    CASE model_type = "bert" -> "BertDEF"
      [] model_type = "sbert" -> "SBertDEF"
      [] OTHER -> "LuisNet"

Init ==
    /\ name_main \in BOOLEAN
    /\ params_exists \in BOOLEAN
    /\ ckpt_exists \in BOOLEAN
    /\ IF name_main
       THEN /\ pc = "start"
            /\ params = NoParams
            /\ model = NoModel
            /\ num_steps = 0
       ELSE /\ pc = "call"
            /\ \E bs \in 1..MaxBatchSize :
                 params = [loaded |-> TRUE, batch_size |-> bs,
                           test_size |-> 0, model_type |-> "luis"]
            /\ model = [defined |-> TRUE, class |-> "LuisNet",
                        weights_loaded |-> TRUE, eval_mode |-> FALSE]
            /\ num_steps \in 0..MaxSteps
    /\ logger_set = FALSE
    /\ data_loaded = FALSE
    /\ step = 0
    /\ summ = <<>>
    /\ tagged_sentences = <<>>
    /\ loss_avg = [steps |-> 0, total |-> Zero]
    /\ pulled = <<>>
    /\ model_calls = <<>>
    /\ loss_calls = <<>>
    /\ divisors = <<>>
    /\ metrics_mean = <<>>
    /\ tagged_file = <<>>
    /\ metrics_file = <<>>
    /\ returned = <<>>
    /\ log = <<>>
    /\ error = "none"

Raise(exception) ==
    /\ pc' = "error"
    /\ error' = exception

(***************************************************************************)
(* The __main__ block, lines 101-149.                                      *)
(***************************************************************************)
CheckConfig ==
    /\ pc = "start"
    /\ IF ConfigAssertion(params_exists)
       THEN pc' = "load_params" /\ error' = error
       ELSE Raise("AssertionError")
    /\ UNCHANGED <<name_main, params_exists, ckpt_exists, params, logger_set,
                   data_loaded, model, num_steps, step, summ, tagged_sentences,
                   loss_avg, pulled, model_calls, loss_calls, divisors,
                   metrics_mean, tagged_file, metrics_file, returned, log>>

\* utils.Params(json_path) opens the file.
LoadParams ==
    /\ pc = "load_params"
    /\ IF params_exists
       THEN /\ \E bs \in 1..MaxBatchSize, mt \in ModelTypes :
                 params' = [params EXCEPT !.loaded = TRUE, !.batch_size = bs,
                                          !.model_type = mt]
            /\ pc' = "set_logger"
            /\ error' = error
       ELSE /\ Raise("FileNotFoundError")
            /\ params' = params
    /\ UNCHANGED <<name_main, params_exists, ckpt_exists, logger_set,
                   data_loaded, model, num_steps, step, summ, tagged_sentences,
                   loss_avg, pulled, model_calls, loss_calls, divisors,
                   metrics_mean, tagged_file, metrics_file, returned, log>>

SetLogger ==
    /\ pc = "set_logger"
    /\ logger_set' = TRUE
    /\ pc' = "load_data"
    /\ UNCHANGED <<name_main, params_exists, ckpt_exists, params,
                   data_loaded, model, num_steps, step, summ, tagged_sentences,
                   loss_avg, pulled, model_calls, loss_calls, divisors,
                   metrics_mean, tagged_file, metrics_file, returned, log, error>>

LoadData ==
    /\ pc = "load_data"
    /\ \E size \in 0..MaxTestSize :
         /\ NumSteps(size, params.batch_size) <= MaxSteps
         /\ params' = [params EXCEPT !.test_size = size]
    /\ data_loaded' = TRUE
    /\ log' = log \o <<"Creating the dataset...", "Loading", "- done.">>
    /\ pc' = "define_model"
    /\ UNCHANGED <<name_main, params_exists, ckpt_exists, logger_set,
                   model, num_steps, step, summ, tagged_sentences,
                   loss_avg, pulled, model_calls, loss_calls, divisors,
                   metrics_mean, tagged_file, metrics_file, returned, error>>

DefineModel ==
    /\ pc = "define_model"
    /\ model' = [model EXCEPT !.defined = TRUE,
                              !.class = ModelClass(params.model_type)]
    /\ log' = Append(log, "Starting evaluation")
    /\ pc' = "load_checkpoint"
    /\ UNCHANGED <<name_main, params_exists, ckpt_exists, params, logger_set,
                   data_loaded, num_steps, step, summ, tagged_sentences,
                   loss_avg, pulled, model_calls, loss_calls, divisors,
                   metrics_mean, tagged_file, metrics_file, returned, error>>

\* A variant of LoadCheckpoint: the weights are never restored.
LoadCheckpointSkipped ==
    /\ pc = "load_checkpoint"
    /\ pc' = "call"
    /\ UNCHANGED <<name_main, params_exists, ckpt_exists, params, logger_set,
                   data_loaded, model, num_steps, step, summ, tagged_sentences,
                   loss_avg, pulled, model_calls, loss_calls, divisors,
                   metrics_mean, tagged_file, metrics_file, returned, log, error>>


LoadCheckpoint ==
    /\ pc = "load_checkpoint"
    /\ IF ckpt_exists
       THEN /\ model' = [model EXCEPT !.weights_loaded = TRUE]
            /\ pc' = "call"
            /\ error' = error
       ELSE /\ Raise("CheckpointError")
            /\ model' = model
    /\ UNCHANGED <<name_main, params_exists, ckpt_exists, params, logger_set,
                   data_loaded, num_steps, step, summ, tagged_sentences,
                   loss_avg, pulled, model_calls, loss_calls, divisors,
                   metrics_mean, tagged_file, metrics_file, returned, log>>

(***************************************************************************)
(* evaluate(), lines 19-98, and its call from the script, lines 152-153.   *)
(***************************************************************************)
CallEvaluate ==
    /\ pc = "call"
    /\ num_steps' = IF name_main
                    THEN NumSteps(params.test_size, params.batch_size)
                    ELSE num_steps
    /\ model' = [model EXCEPT !.eval_mode = TRUE]
    /\ summ' = <<>>
    /\ tagged_sentences' = <<>>
    /\ loss_avg' = [steps |-> 0, total |-> Zero]
    /\ step' = 0
    /\ pc' = "loop"
    /\ UNCHANGED <<name_main, params_exists, ckpt_exists, params, logger_set,
                   data_loaded, pulled, model_calls, loss_calls, divisors,
                   metrics_mean, tagged_file, metrics_file, returned, log, error>>

\* One iteration of the for loop, lines 41-70.
EvalStep ==
    /\ pc = "loop"
    /\ LoopContinues(step, num_steps)
    /\ \E data_batch \in Batches(Len(pulled) + 1, params.batch_size) :
       \E output_batch \in ModelOutputs(data_batch) :
         LET b == Len(pulled) + 1
             labels_batch == data_batch.slabels
             loss == LossFn(output_batch, labels_batch)
         IN  /\ pulled' = Append(pulled, data_batch)
             /\ model_calls' = Append(model_calls, [batch |-> b, output |-> output_batch])
             /\ loss_calls' = Append(loss_calls, b)
             /\ summ' = Append(summ, SummaryBatch(output_batch, labels_batch, loss))
             /\ tagged_sentences' =
                    IF TagsSentences(name_main)
                    THEN tagged_sentences \o
                         TaggedBatch(data_batch.sentences, output_batch, labels_batch)
                    ELSE tagged_sentences
             /\ loss_avg' = [steps |-> loss_avg.steps + 1,
                             total |-> RatAdd(loss_avg.total, loss)]
    /\ step' = step + 1
    /\ UNCHANGED <<pc, name_main, params_exists, ckpt_exists, params, logger_set,
                   data_loaded, model, num_steps, divisors,
                   metrics_mean, tagged_file, metrics_file, returned, log, error>>

\* next(data_iterator) on an exhausted iterator, line 43.
IteratorExhausted ==
    /\ pc = "loop"
    /\ LoopContinues(step, num_steps)
    /\ Raise("StopIteration")
    /\ UNCHANGED <<name_main, params_exists, ckpt_exists, params, logger_set,
                   data_loaded, model, num_steps, step, summ, tagged_sentences,
                   loss_avg, pulled, model_calls, loss_calls, divisors,
                   metrics_mean, tagged_file, metrics_file, returned, log>>

\* Lines 71-90: the means, the sums, the f1score block, the log line.
Aggregate ==
    /\ pc = "loop"
    /\ ~LoopContinues(step, num_steps)
    /\ IF SummIsEmpty(summ)
       THEN /\ Raise("IndexError")
            /\ UNCHANGED <<divisors, metrics_mean, log>>
       ELSE LET mean == MetricsMean(summ)
                sum == MetricsSum(summ)
                sc == ComputeScores(sum["tp"], sum["fp"], sum["fn"])
            IN  /\ divisors' = sc.divisors
                /\ IF sc.ok
                   THEN /\ metrics_mean' = FinalMetrics(mean, sc)
                        /\ log' = Append(log, "- Eval metrics : ")
                        /\ pc' = "write_tagged"
                        /\ error' = error
                   ELSE /\ Raise("ZeroDivisionError")
                        /\ UNCHANGED <<metrics_mean, log>>
    /\ UNCHANGED <<name_main, params_exists, ckpt_exists, params, logger_set,
                   data_loaded, model, num_steps, step, summ, tagged_sentences,
                   loss_avg, pulled, model_calls, loss_calls,
                   tagged_file, metrics_file, returned>>

\* Lines 92-98: the tagged sentences file, then the return.
WriteAndReturn ==
    /\ pc = "write_tagged"
    /\ tagged_file' = IF WritesTagged(name_main)
                      THEN Append(tagged_file, tagged_sentences)
                      ELSE tagged_file
    /\ returned' = <<[metrics |-> metrics_mean,
                      loss |-> RatDiv(loss_avg.total, IntRat(loss_avg.steps))]>>
    /\ pc' = IF name_main THEN "save" ELSE "returned"
    /\ UNCHANGED <<name_main, params_exists, ckpt_exists, params, logger_set,
                   data_loaded, model, num_steps, step, summ, tagged_sentences,
                   loss_avg, pulled, model_calls, loss_calls, divisors,
                   metrics_mean, metrics_file, log, error>>

\* Lines 154-155: utils.save_dict_to_json(test_metrics, save_path).
SaveMetrics ==
    /\ pc = "save"
    /\ metrics_file' = Append(metrics_file, returned[1].metrics)
    /\ pc' = "done"
    /\ UNCHANGED <<name_main, params_exists, ckpt_exists, params, logger_set,
                   data_loaded, model, num_steps, step, summ, tagged_sentences,
                   loss_avg, pulled, model_calls, loss_calls, divisors,
                   metrics_mean, tagged_file, returned, log, error>>

Next ==
    \/ CheckConfig
    \/ LoadParams
    \/ SetLogger
    \/ LoadData
    \/ DefineModel
    \/ LoadCheckpoint
    \/ CallEvaluate
    \/ EvalStep
    \/ IteratorExhausted
    \/ Aggregate
    \/ WriteAndReturn
    \/ SaveMetrics

Spec == Init /\ [][Next]_vars

(***************************************************************************)
(* Properties.                                                             *)
(***************************************************************************)

\* The count `metric` added up over the batches processed so far.
RECURSIVE CountUpTo(_, _)
CountUpTo(metric, k) ==
    IF k = 0 THEN 0 ELSE CountUpTo(metric, k - 1) + summ[k][metric][1]

Total(metric) == CountUpTo(metric, Len(summ))

\* The per-batch values of `metric` added up, as a rational.
RECURSIVE ValueUpTo(_, _)
ValueUpTo(metric, k) ==
    IF k = 0 THEN Zero ELSE RatAdd(ValueUpTo(metric, k - 1), summ[k][metric])

Returned == Len(returned) = 1

Metrics == returned[1].metrics

\* a = n / d, for a rational a and integers n, d with d # 0
IsQuotient(a, n, d) == a[1] * d = n * a[2]

\* The tagged lines of batches 1..k, batch after batch, sentence after sentence.
RECURSIVE LinesUpTo(_)
LinesUpTo(k) ==
    IF k = 0 THEN <<>>
    ELSE LinesUpTo(k - 1) \o
         [j \in 1..Len(pulled[k].sentences) |->
            TaggedSent(pulled[k].sentences[j], model_calls[k].output[j],
                       pulled[k].slabels[j])]

RECURSIVE SentencesUpTo(_)
SentencesUpTo(k) ==
    IF k = 0 THEN 0 ELSE SentencesUpTo(k - 1) + Len(pulled[k].sentences)

\* C1: when the summed tp is 0, the returned precision, recall and f1score are
\* all 0.0, whatever the summed fp and fn are.
C1_ZeroTruePositives ==
    (Returned /\ Total("tp") = 0) =>
        /\ Metrics["precision"] = <<0, 1>>
        /\ Metrics["recall"] = <<0, 1>>
        /\ Metrics["f1score"] = <<0, 1>>

C1_Witness ==
    /\ Returned
    /\ Total("tp") = 0
    /\ Total("fp") = 0
    /\ Total("fn") = 0

\* C2: when the summed tp is positive, precision = tp/(tp+fp), recall =
\* tp/(tp+fn) and f1score is their harmonic mean, f1score*(2tp+fp+fn) = 2tp;
\* tp = fp = fn = 1 gives 0.5 for all three.
C2_Scores ==
    (Returned /\ Total("tp") > 0) =>
        LET tp == Total("tp")
            fp == Total("fp")
            fn == Total("fn")
            p == Metrics["precision"]
            r == Metrics["recall"]
            f == Metrics["f1score"]
        IN  /\ IsQuotient(p, tp, tp + fp)
            /\ IsQuotient(r, tp, tp + fn)
            /\ f[1] * (2 * tp + fp + fn) = 2 * tp * f[2]
            /\ f[1] * (p[1] * r[2] + r[1] * p[2]) = 2 * p[1] * r[1] * f[2]
            /\ (tp = 1 /\ fp = 1 /\ fn = 1) =>
                    (p = <<1, 2>> /\ r = <<1, 2>> /\ f = <<1, 2>>)

C2_Witness ==
    /\ Returned
    /\ Total("tp") = 1
    /\ Total("fp") = 1
    /\ Total("fn") = 1

\* C3: the f1score block works on tp, fp and fn summed over the processed
\* batches, and every other returned entry, 'loss' included, is the mean of
\* its per-batch values.
C3_SumsAndMeans ==
    Returned =>
        LET n == Len(summ)
            tp == Total("tp")
            fp == Total("fp")
            fn == Total("fn")
        IN  /\ DOMAIN Metrics = {"accuracy", "loss", "f1score", "precision", "recall"}
            /\ \A metric \in {"accuracy", "loss"} :
                  RatMul(Metrics[metric], IntRat(n)) = ValueUpTo(metric, n)
            /\ tp > 0 =>
                  /\ Len(divisors) = 3
                  /\ divisors[1] = IntRat(tp + fp)
                  /\ divisors[2] = IntRat(tp + fn)

C3_Witness ==
    /\ Returned
    /\ Len(summ) >= 2
    /\ summ[1]["loss"] # summ[2]["loss"]
    /\ summ[1]["accuracy"] # summ[2]["accuracy"]
    /\ summ[1]["tp"] = IntRat(1)
    /\ summ[2]["tp"] = IntRat(0)
    /\ Total("fp") > 0

\* C4: in a run of the script the configuration is loaded before the
\* checkpoint, the checkpoint before the first inference, the metrics file is
\* written only after all num_steps batches are inferred and aggregated, and
\* it is written at most once.
C4_Order ==
    name_main =>
        /\ model.weights_loaded => params.loaded
        /\ model_calls # <<>> => model.weights_loaded
        /\ metrics_file # <<>> =>
              /\ step = num_steps
              /\ Len(model_calls) = num_steps
              /\ Len(summ) = num_steps
              /\ Returned
              /\ metrics_file[1] = Metrics
        /\ Len(metrics_file) <= 1

C4_Witness ==
    /\ name_main
    /\ pc = "done"
    /\ Len(metrics_file) = 1
    /\ Len(model_calls) = MaxSteps

\* C5: without params.json the script stops at the assertion, before any other
\* step: no logger, no data, no checkpoint, no inference, no output file.
C5_MissingConfig ==
    (name_main /\ ~params_exists) =>
        /\ pc \in {"start", "error"}
        /\ pc = "error" => error = "AssertionError"
        /\ ~params.loaded
        /\ ~logger_set
        /\ ~data_loaded
        /\ ~model.weights_loaded
        /\ model_calls = <<>>
        /\ metrics_file = <<>>
        /\ tagged_file = <<>>

C5_Witness ==
    /\ name_main
    /\ ~params_exists
    /\ pc = "error"
    /\ error = "AssertionError"

\* C6: a call of evaluate that returns has pulled exactly num_steps batches,
\* has run the model and the loss function once on each, in the order pulled,
\* and has accumulated num_steps summaries.
C6_ExactlyNumSteps ==
    Returned =>
        /\ Len(pulled) = num_steps
        /\ Len(model_calls) = num_steps
        /\ \A k \in 1..num_steps : model_calls[k].batch = k
        /\ loss_calls = [k \in 1..num_steps |-> k]
        /\ Len(summ) = num_steps
        /\ loss_avg.steps = num_steps

C6_Witness ==
    /\ Returned
    /\ num_steps = MaxSteps
    /\ Len(pulled) = MaxSteps

\* C7: the f1score block is guarded by tp != 0 alone, and with that guard none
\* of its three divisions ever runs with a zero denominator.
C7_NoZeroDenominator ==
    /\ error # "ZeroDivisionError"
    /\ \A k \in 1..Len(divisors) : divisors[k][1] # 0
    /\ pc \in {"write_tagged", "save", "returned", "done"} =>
          Len(divisors) = (IF Total("tp") # 0 THEN 3 ELSE 0)

C7_Witness ==
    /\ Returned
    /\ Len(divisors) = 3
    /\ Total("fp") = 0
    /\ Total("fn") = 0

\* C8: called from another module evaluate tags no sentence and writes no
\* file; run as the script it writes output_tagged_sentences.txt once, after
\* the last batch, one tagged line per sentence of the processed batches, in
\* batch order and in sentence order within a batch.
C8_TaggedSentences ==
    /\ ~name_main => (tagged_sentences = <<>> /\ tagged_file = <<>> /\ metrics_file = <<>>)
    /\ Len(tagged_file) <= 1
    /\ (name_main /\ Returned) => Len(tagged_file) = 1
    /\ tagged_file # <<>> =>
          /\ step = num_steps
          /\ Len(pulled) = num_steps
          /\ Len(tagged_file[1]) = SentencesUpTo(Len(pulled))
          /\ tagged_file[1] = LinesUpTo(Len(pulled))

C8_Witness ==
    /\ name_main
    /\ Len(tagged_file) = 1
    /\ Len(pulled) = 2
    /\ Len(pulled[1].sentences) = 2
    /\ Len(pulled[2].sentences) = 2
    /\ tagged_file[1][1] = "b1 s1<DEF/><O/>"

C8_WitnessImported ==
    /\ ~name_main
    /\ Returned
    /\ Len(pulled) = 2

\* C9: the script's num_steps never asks for more sentences than the test set
\* holds: num_steps * batch_size <= test_size.
C9_StepsFitTestSet ==
    (name_main /\ pc = "loop") =>
        num_steps * params.batch_size <= params.test_size

\* C10: with num_steps = 0 evaluate pulls no batch, runs no inference and
\* fails at the aggregation step instead of returning, so neither output file
\* is written; the script gets num_steps = 0 whenever test_size + 1 < batch_size.
C10_ZeroSteps ==
    /\ (model.eval_mode /\ num_steps = 0) =>
          /\ pc \in {"loop", "error"}
          /\ pc = "error" => error = "IndexError"
          /\ pulled = <<>>
          /\ model_calls = <<>>
          /\ loss_calls = <<>>
          /\ ~Returned
          /\ tagged_file = <<>>
          /\ metrics_file = <<>>
    /\ (name_main /\ model.eval_mode) =>
          (num_steps = 0 <=> params.test_size + 1 < params.batch_size)

C10_Witness ==
    /\ name_main
    /\ model.eval_mode
    /\ params.test_size + 1 < params.batch_size
    /\ pc = "error"
    /\ error = "IndexError"

====
